---- MODULE Spec2Model ----
(***************************************************************************)
(* Post-training-quantization calibration of owlite: the calibration       *)
(* context (owlite/calibrators.py), the Calibrator protocol                *)
(* (owlite/calib/calibrator.py) and the percentile calibrator              *)
(* (owlite/calib/percentile_calibrator.py).                                *)
(*                                                                         *)
(* A model is a list of FakeQuantizers, each with its calibrator.  The     *)
(* with-statement around a CalibrationContext is modelled by three         *)
(* variables: depth (contexts entered and not yet left), pending (the      *)
(* exception travelling out of the innermost block, if any) and raised     *)
(* (what the last operation delivered to its caller).                      *)
(*                                                                         *)
(* Spec drives the model through the CalibrationContext; SpecCal calls the *)
(* methods of one calibrator directly (constructor, check_calib_ready,     *)
(* prepare, hook, update) with richer histograms and percentiles.          *)
(*                                                                         *)
(* SpecBench runs orchestrate_trt_benchmark and the polling loop of one    *)
(* Benchmarkable (owlite/api/benchmarkable.py), SpecBenchFair adds that    *)
(* the loop keeps iterating; SpecExp calls the Experiment classmethods     *)
(* load, create and load_or_create (owlite/api/experiment.py).             *)
(***************************************************************************)
EXTENDS Integers, Sequences, FiniteSets, TLC

\* ------------------------------------------------------------------ bounds
NQ == 2          \* FakeQuantizers of the model
NCh == 2         \* channels of each quantizer's step_size
HistcBins == 2   \* bins of each channel's histogram
MaxBatches == 1  \* forward passes fed inside one calibration scope
MaxDepth == 2    \* nested with-blocks
MaxObs == 3      \* batches one calibrator observes when driven directly
MaxQueries == 2  \* queue replies that leave a poll running
MaxRuns == 2     \* orchestrations started on one Benchmarkable
NNames == 2      \* experiment names of the baseline
MaxCalls == 3    \* Experiment classmethods called on one baseline

\* FakeQuantizer.maxabs_bound of a signed 8-bit quantizer
MaxabsBound == 127

Q == 1 .. NQ
Ch == 1 .. NCh
\* magnitudes are multiples of Mag, so that every bin edge divided by
\* maxabs_bound is an integer and the division of update() is exact
Mag == HistcBins * MaxabsBound

NoExc == "None"
CALIBRATED == "CALIBRATED"
COMPRESSED == "COMPRESSED"

\* the calibrators a FakeQuantizer can be built with: a PercentileCalibrator
\* with its percentile, or another implementation of the abstract Calibrator
Percentiles == {100}
CalibratorChoices ==
    {[kind |-> "percentile", percentile |-> p] : p \in Percentiles}
        \cup {[kind |-> "other", percentile |-> 0]}
\* a FakeQuantizer that has no calibrator assigned: its calibrator is None
NoCalibrator == [kind |-> "none", percentile |-> 0]
\* no calibrator object besides those the quantizers point to
NoSpare == [kind |-> "none", percentile |-> 0, quantizer |-> 0]

\* the batches one forward pass can show a quantizer's hook: the magnitude
\* each channel observes
Batches ==
    { [c \in Ch |-> 0],
      [c \in Ch |-> IF c = 1 THEN Mag ELSE 0] }

\* the step sizes an implementation of the abstract update() may derive
StepChoices ==
    { [c \in Ch |-> 0],
      [c \in Ch |-> IF c = 1 THEN -1 ELSE 2],
      [c \in Ch |-> IF c = 1 THEN 0 ELSE -1],
      [c \in Ch |-> 2] }

\* ------------------------------------------------------------------- state
VARIABLES
    calibrator,     \* calibrator[q]: the calibrator object of quantizer q
    is_enabled,     \* FakeQuantizer.is_enabled
    step_size,      \* FakeQuantizer.step_size, one integer per channel
    zero_point,     \* FakeQuantizer.zero_point, one integer per channel
    hooks,          \* forward hooks registered on the quantizer
    hook_handler,   \* Calibrator.hook_handler is a RemovableHandle (not None)
    histogram,      \* HistogramCalibrator.histogram: per channel, bin counts
    bin_edges,      \* HistogramCalibrator.bin_edges: per channel, bin edges
    histc_bins,     \* HistogramCalibrator.histc_bins: per channel, bin number
    determinism,    \* torch's global deterministic-algorithms setting
    owlite_status,  \* model.meta["owlite_status"]
    depth,          \* CalibrationContexts entered and not yet exited
    batches,        \* forward passes since the last entry
    pending,        \* exception raised inside the innermost with-block
    raised,         \* exception the last operation raised to its caller
    op,             \* the last operation: init, enter, forward, raise, exit;
                    \* construct, check_calib_ready, disable, enable, prepare,
                    \* hook, update when the calibrator is driven directly
    derived,        \* step_size of each quantizer as update() left it, in the
                    \* exit that just ended (empty otherwise)
    trace,          \* the calls the last operation made, in order
    ret,            \* what check_calib_ready() returned, if it was the last
                    \* operation ("None" otherwise)
    spare,          \* the calibrator object the caller built last and no
                    \* quantizer points to (NoSpare when there is none)
    begun,          \* a calibrator was prepared by a direct call
    bench,          \* one Benchmarkable, its device, its user and the
                    \* progress of its benchmark (see InitBench)
    expt            \* baseline.experiments and what the last Experiment
                    \* classmethod returned (see InitExp)

vars == << calibrator, is_enabled, step_size, zero_point, hooks, hook_handler, histogram,
           bin_edges, histc_bins, determinism, owlite_status, depth, batches,
           pending, raised, op, derived, trace, ret, spare, begun, bench, expt >>

\* The mutable part of the program a handler works on, threaded through the
\* loops of the handlers as one record.
Store ==
    [ is_enabled |-> is_enabled, step_size |-> step_size,
      zero_point |-> zero_point, hooks |-> hooks,
      hook_handler |-> hook_handler, histogram |-> histogram,
      bin_edges |-> bin_edges, histc_bins |-> histc_bins,
      determinism |-> determinism, owlite_status |-> owlite_status,
      derived |-> [q \in Q |-> << >>], exc |-> NoExc, trace |-> << >>,
      ret |-> "None", fault |-> 0 ]

Call(S, what, q) == [S EXCEPT !.trace = Append(@, << what, q >>)]

\* the FakeQuantizers met by walking the module tree from the model root, one
\* entry per module path: quantizer 1 is shared by reference, a second path
\* leads to the same instance after the others
Modules == [i \in 1 .. NQ + 1 |-> IF i <= NQ THEN i ELSE 1]

\* the walk that yields an instance again for every path that leads to it
NamedModulesAll == Modules

\* the memo of named_modules: an instance already yielded is not yielded again
RECURSIVE RemoveDuplicate(_, _)
RemoveDuplicate(ms, n) ==
    IF n = 0 THEN << >>
    ELSE LET r == RemoveDuplicate(ms, n - 1)
         IN IF \E i \in DOMAIN r : r[i] = ms[n] THEN r ELSE Append(r, ms[n])

\* model.named_modules(remove_duplicate=True), kept to the FakeQuantizers
NamedModules == RemoveDuplicate(Modules, Len(Modules))

\* the sequences << x1 .. xn >> with xi in sets[i]: one input per quantizer
RECURSIVE Product(_, _)
Product(sets, n) ==
    IF n = 0 THEN {<< >>}
    ELSE {Append(f, x) : f \in Product(sets, n - 1), x \in sets[n]}

\* ------------------------------------------------------ histogram (hook)
\* HistogramCalibrator (owlite/calib/histogram_calibrator.py) is the base class
\* of PercentileCalibrator; its prepare(), hook, update() and clear() follow the
\* design document: a fixed number of bins over [0, max observed magnitude],
\* widened and re-binned when a larger magnitude arrives.  One batch shows
\* each channel one magnitude.
RECURSIVE SumTo(_, _)
SumTo(h, n) == IF n = 0 THEN 0 ELSE h[n] + SumTo(h, n - 1)
Sum(h) == SumTo(h, Len(h))

Min2(a, b) == IF a <= b THEN a ELSE b
Abs(x) == IF x < 0 THEN -x ELSE x

\* bin edges of a histogram over [0, m] with HistcBins bins
Edges(m) == [i \in 1 .. HistcBins + 1 |-> ((i - 1) * m) \div HistcBins]
\* the bin (1-based) a magnitude x falls in when the range is [0, m]; the
\* maximum belongs to the last bin
BinOf(x, m) == IF m = 0 THEN 1 ELSE Min2(HistcBins, (x * HistcBins) \div m + 1)
\* re-binning that keeps only the counts in place
RebinDrop(h, m1, m2) ==
    [j \in 1 .. HistcBins |-> IF BinOf(Edges(m1)[j], m2) = j THEN h[j] ELSE 0]

\* the counts h collected over [0, m1] re-binned into [0, m2]: each old bin
\* goes, whole, to the new bin its left edge falls in
Rebin(h, m1, m2) ==
    [j \in 1 .. HistcBins |->
        SumTo([i \in 1 .. HistcBins |->
                  IF BinOf(Edges(m1)[i], m2) = j THEN h[i] ELSE 0], HistcBins)]
AddAt(h, j) == [h EXCEPT ![j] = @ + 1]

\* one observation of magnitude x by a channel whose histogram is h over the
\* edges e: << histogram, bin_edges >> afterwards
Observe(h, e, x) ==
    LET top == e[HistcBins + 1] IN
    IF Sum(h) = 0 THEN << AddAt(h, BinOf(x, x)), Edges(x) >>
    ELSE IF x > top THEN << AddAt(Rebin(h, top, x), BinOf(x, x)), Edges(x) >>
    ELSE << AddAt(h, BinOf(x, top)), e >>

\* the forward hook of quantizer q's calibrator sees the batch b
HookObserve(S, q, b) ==
    IF S.histc_bins[q] = << >> \/ calibrator[q].kind # "percentile" THEN S
    ELSE [S EXCEPT
            !.histogram[q] = [c \in Ch |-> Observe(S.histogram[q][c], S.bin_edges[q][c], b[c])[1]],
            !.bin_edges[q] = [c \in Ch |-> Observe(S.histogram[q][c], S.bin_edges[q][c], b[c])[2]]]

\* every hook registered on q runs once per forward pass
RECURSIVE RunHooks(_, _, _, _)
RunHooks(S, q, b, n) ==
    IF n = 0 THEN S ELSE RunHooks(HookObserve(Call(S, "hook", q), q, b), q, b, n - 1)

\* --------------------------------------------------------------- calibrator
\* the calibrator object quantizer q points to (FakeQuantizer.calibrator),
\* named by a number: q's own calibrator is q, a spare object is 0
QuantizerCalibrator(q) == q

\* check_calib_ready() without the comparison of the back-reference
CheckCalibReadyNoBackref(S, self, q) ==
    IF S.is_enabled[q] THEN [Call(S, "log.error", q) EXCEPT !.ret = "False"]
    ELSE [S EXCEPT !.ret = "True"]

\* Calibrator.check_calib_ready() of the calibrator object self, whose
\* quantizer attribute is q
CheckCalibReady(S, self, q) ==
    IF QuantizerCalibrator(q) # self THEN [Call(S, "log.error", q) EXCEPT !.ret = "False"]
    ELSE IF S.is_enabled[q] THEN [Call(S, "log.error", q) EXCEPT !.ret = "False"]
    ELSE [S EXCEPT !.ret = "True"]

\* the range check with the bounds 0 and 100 excluded
PercentileInitStrict(S, q, percentile) ==
    LET S1 == Call(S, "Calibrator.__init__", q) IN
    IF percentile <= 0 \/ percentile >= 100 THEN [S1 EXCEPT !.exc = "ValueError"]
    ELSE S1

\* PercentileCalibrator.__init__(quantizer, percentile)
PercentileInit(S, q, percentile) ==
    LET S1 == Call(S, "Calibrator.__init__", q) IN
    IF percentile < 0 \/ percentile > 100 THEN [S1 EXCEPT !.exc = "ValueError"]
    ELSE S1

Disable(S, q) == [Call(S, "disable", q) EXCEPT !.is_enabled[q] = FALSE]
Enable(S, q) == [Call(S, "enable", q) EXCEPT !.is_enabled[q] = TRUE]

\* the temporary observation state of q's calibrator exists
Prepared(S, q) == S.histc_bins[q] # << >>

\* Calibrator.prepare(): sets the temporary observation state and registers the
\* hook, or raises ValueError when that state is already set
Prepare(S, q) ==
    LET S1 == Call(S, "prepare", q) IN
    IF Prepared(S1, q) THEN [S1 EXCEPT !.exc = "ValueError"]
    ELSE [S1 EXCEPT
            !.histogram[q] = [c \in Ch |-> [i \in 1 .. HistcBins |-> 0]],
            !.bin_edges[q] = [c \in Ch |-> [i \in 1 .. HistcBins + 1 |-> 0]],
            !.histc_bins[q] = [c \in Ch |-> HistcBins],
            !.hooks[q] = @ + 1,
            !.hook_handler[q] = TRUE]

\* HistogramCalibrator.update(), the super().update() of the subclasses:
\* detaches the hook through the stored handle
HistogramUpdate(S, q) ==
    IF S.hook_handler[q] /\ S.hooks[q] > 0 THEN [S EXCEPT !.hooks[q] = @ - 1] ELSE S

\* HistogramCalibrator.clear(): releases the per-calibration state and the
\* handle reference
Clear(S, q) ==
    [S EXCEPT !.histogram[q] = << >>, !.bin_edges[q] = << >>,
              !.histc_bins[q] = << >>, !.hook_handler[q] = FALSE]

\* searchsorted(..., right=True): the first i with cdf[i] > percentile / 100
SearchsortedRight(h, percentile) ==
    LET total == Sum(h)
        hit == {i \in 1 .. Len(h) : total # 0 /\ 100 * SumTo(h, i) > percentile * total}
    IN IF hit = {} THEN Len(h) + 1 ELSE CHOOSE i \in hit : \A j \in hit : i <= j

\* the comparison of the search turned round: the first i with
\* cdf[i] <= percentile / 100
SearchsortedBelow(h, percentile) ==
    LET total == Sum(h)
        hit == {i \in 1 .. Len(h) : total # 0 /\ 100 * SumTo(h, i) <= percentile * total}
    IN IF hit = {} THEN Len(h) + 1 ELSE CHOOSE i \in hit : \A j \in hit : i <= j

\* torch.searchsorted(cdf, percentile / 100) over cdf = cumsum(h / total), as
\* a 1-based index: the first i with cdf[i] >= percentile / 100, else
\* HistcBins + 1.  With total = 0 every cdf entry is NaN, no comparison holds
\* and the index is HistcBins + 1.
Searchsorted(h, percentile) ==
    LET total == Sum(h)
        hit == {i \in 1 .. Len(h) : total # 0 /\ 100 * SumTo(h, i) >= percentile * total}
    IN IF hit = {} THEN Len(h) + 1 ELSE CHOOSE i \in hit : \A j \in hit : i <= j

\* the per-channel loop of PercentileCalibrator.update()
PercentileStep(S, q, c) ==
    IF c \in DOMAIN S.histc_bins[q]
    THEN S.bin_edges[q][c][Searchsorted(S.histogram[q][c], calibrator[q].percentile)]
            \div MaxabsBound
    ELSE S.step_size[q][c]

\* torch.cumsum of line 51, recorded with the global setting it runs under
Cumsum(S, q) ==
    Call(S, IF S.determinism.enabled THEN "cumsum[deterministic]" ELSE "cumsum", q)

\* the iteration writing the channel's zero_point as well, as a calibrator
\* for asymmetric quantization would
PercentileChannelAsymmetric(S, q, c) ==
    LET S1 == Cumsum(S, q)
    IN [S1 EXCEPT !.step_size[q][c] = PercentileStep(S1, q, c),
                  !.zero_point[q][c] = Searchsorted(S1.histogram[q][c], calibrator[q].percentile)]

\* one iteration of the loop: the channel's step size is written
PercentileChannel(S, q, c) ==
    LET S1 == Cumsum(S, q) IN [S1 EXCEPT !.step_size[q][c] = PercentileStep(S1, q, c)]

\* the loop over the channels; S.fault is the channel whose tensor operations
\* raise (0: none do), and nothing catches that error
RECURSIVE PercentileLoop(_, _, _)
PercentileLoop(S, q, c) ==
    IF c > NCh THEN S
    ELSE IF c = S.fault THEN [S EXCEPT !.exc = "RuntimeError"]
    ELSE PercentileLoop(PercentileChannel(S, q, c), q, c + 1)

\* update() that leaves the global setting as it finds it: no
\* use_deterministic_algorithms(False, warn_only=True) before the loop
PercentileUpdateNoForce(S, q) ==
    LET S1 == HistogramUpdate(Call(S, "update", q), q) IN
    IF ~S1.hook_handler[q] THEN [S1 EXCEPT !.exc = "AssertionError"]
    ELSE
        LET status == S1.determinism.enabled
            S3 == PercentileLoop(S1, q, 1)
            S4 == [S3 EXCEPT !.determinism = [enabled |-> status, warn_only |-> TRUE]]
        IN IF S3.exc # NoExc THEN S3 ELSE Clear(S4, q)

\* update() that returns without calling clear()
PercentileUpdateNoClear(S, q) ==
    LET S1 == HistogramUpdate(Call(S, "update", q), q) IN
    IF ~S1.hook_handler[q] THEN [S1 EXCEPT !.exc = "AssertionError"]
    ELSE
        LET status == S1.determinism.enabled
            S2 == [S1 EXCEPT !.determinism = [enabled |-> FALSE, warn_only |-> TRUE]]
            S3 == PercentileLoop(S2, q, 1)
        IN IF S3.exc # NoExc THEN S3
           ELSE [S3 EXCEPT !.determinism = [enabled |-> status, warn_only |-> TRUE]]

\* update() that does not call super().update()
PercentileUpdateNoSuper(S, q) ==
    LET S1 == Call(S, "update", q) IN
    IF ~S1.hook_handler[q] THEN [S1 EXCEPT !.exc = "AssertionError"]
    ELSE
        LET status == S1.determinism.enabled
            S2 == [S1 EXCEPT !.determinism = [enabled |-> FALSE, warn_only |-> TRUE]]
            S3 == PercentileLoop(S2, q, 1)
            S4 == [S3 EXCEPT !.determinism = [enabled |-> status, warn_only |-> TRUE]]
        IN IF S3.exc # NoExc THEN S3 ELSE Clear(S4, q)

PercentileUpdate(S, q) ==
    LET S1 == HistogramUpdate(Call(S, "update", q), q) IN
    IF ~S1.hook_handler[q] THEN [S1 EXCEPT !.exc = "AssertionError"]
    ELSE
        LET status == S1.determinism.enabled
            S2 == [S1 EXCEPT !.determinism = [enabled |-> FALSE, warn_only |-> TRUE]]
            S3 == PercentileLoop(S2, q, 1)
            S4 == [S3 EXCEPT !.determinism = [enabled |-> status, warn_only |-> TRUE]]
        IN IF S3.exc # NoExc THEN S3 ELSE Clear(S4, q)

\* Calibrator.update() of another implementation, by the contract the base
\* class declares: derives some step sizes, writes them and removes the
\* registered hook.  Its temporary attributes and its handle are kept in the
\* fields the histogram calibrators use; what its hook records is not modelled.
OtherUpdate(S, q, steps) ==
    LET S1 == HistogramUpdate(Call(S, "update", q), q) IN
    IF ~S1.hook_handler[q] THEN [S1 EXCEPT !.exc = "AssertionError"]
    ELSE Clear([S1 EXCEPT !.step_size[q] = steps], q)

\* module.calibrator.update(), dispatched on the calibrator's class
CalibratorUpdate(S, q, steps) ==
    IF calibrator[q].kind = "none" THEN [S EXCEPT !.exc = "AttributeError"]
    ELSE IF calibrator[q].kind = "percentile" THEN PercentileUpdate(S, q)
    ELSE OtherUpdate(S, q, steps)

\* --------------------------------------------------------- calibrators.py
\* module.calibrator.prepare(): the attribute lookup on None raises
\* AttributeError before anything is called
CalibratorPrepare(S, q) ==
    IF calibrator[q].kind = "none" THEN [S EXCEPT !.exc = "AttributeError"]
    ELSE Prepare(S, q)

\* prepare() called before disable()
PrepareModuleSwapped(S, q) ==
    LET S1 == CalibratorPrepare(S, q) IN IF S1.exc # NoExc THEN S1 ELSE Disable(S1, q)

\* the body of the loop of _prepare_for_calibration
PrepareModule(S, q) == CalibratorPrepare(Disable(S, q), q)

\* the loop with the error of prepare() caught and dropped
RECURSIVE PrepareLoopSwallow(_, _)
PrepareLoopSwallow(S, i) ==
    IF i > Len(NamedModules) THEN S
    ELSE PrepareLoopSwallow([PrepareModule(S, NamedModules[i]) EXCEPT !.exc = NoExc], i + 1)

RECURSIVE PrepareLoop(_, _)
PrepareLoop(S, i) ==
    IF i > Len(NamedModules) THEN S
    ELSE LET S1 == PrepareModule(S, NamedModules[i])
         IN IF S1.exc # NoExc THEN S1 ELSE PrepareLoop(S1, i + 1)

PrepareForCalibration(S) == PrepareLoop(S, 1)

AbsMax(s) == CHOOSE m \in {Abs(s[c]) : c \in DOMAIN s} : \A c \in DOMAIN s : Abs(s[c]) <= m
MinOf(s) == CHOOSE m \in {s[c] : c \in DOMAIN s} : \A c \in DOMAIN s : m <= s[c]

\* the warning branch ending the iteration like the error branch does
ValidateWarnContinue(S, q) ==
    IF AbsMax(S.step_size[q]) <= 0 THEN Call(S, "log.error", q)
    ELSE IF MinOf(S.step_size[q]) < 0
    THEN [Call(S, "log.warning", q) EXCEPT
            !.step_size[q] = [c \in Ch |-> Abs(S.step_size[q][c])]]
    ELSE Enable(S, q)

\* the error branch without its continue
ValidateEnableAll(S, q) ==
    IF AbsMax(S.step_size[q]) <= 0 THEN Enable(Call(S, "log.error", q), q)
    ELSE IF MinOf(S.step_size[q]) < 0
    THEN Enable([Call(S, "log.warning", q) EXCEPT
                    !.step_size[q] = [c \in Ch |-> Abs(S.step_size[q][c])]], q)
    ELSE Enable(S, q)

\* the coercion negating the step sizes instead of taking abs()
ValidateNegate(S, q) ==
    IF AbsMax(S.step_size[q]) <= 0 THEN Call(S, "log.error", q)
    ELSE IF MinOf(S.step_size[q]) < 0
    THEN Enable([Call(S, "log.warning", q) EXCEPT
                    !.step_size[q] = [c \in Ch |-> 0 - S.step_size[q][c]]], q)
    ELSE Enable(S, q)

\* the body of the loop of _update_fake_quantizers after update() returned
Validate(S, q) ==
    IF AbsMax(S.step_size[q]) <= 0 THEN Call(S, "log.error", q)
    ELSE IF MinOf(S.step_size[q]) < 0
    THEN Enable([Call(S, "log.warning", q) EXCEPT
                    !.step_size[q] = [c \in Ch |-> Abs(S.step_size[q][c])]], q)
    ELSE Enable(S, q)

\* remembers what update() left in step_size, for the properties
Derived(S, q) == [S EXCEPT !.derived[q] = S.step_size[q]]

\* the loop with break in place of continue
RECURSIVE UpdateLoopBreak(_, _, _)
UpdateLoopBreak(S, i, steps) ==
    IF i > Len(NamedModules) THEN S
    ELSE LET q == NamedModules[i]
             S1 == CalibratorUpdate(S, q, steps[q])
         IN IF S1.exc # NoExc THEN S1
            ELSE IF AbsMax(S1.step_size[q]) <= 0 THEN Validate(Derived(S1, q), q)
            ELSE UpdateLoopBreak(Validate(Derived(S1, q), q), i + 1, steps)

RECURSIVE UpdateLoop(_, _, _)
UpdateLoop(S, i, steps) ==
    IF i > Len(NamedModules) THEN S
    ELSE LET q == NamedModules[i]
             S1 == CalibratorUpdate(S, q, steps[q])
         IN IF S1.exc # NoExc THEN S1
            ELSE UpdateLoop(Validate(Derived(S1, q), q), i + 1, steps)

UpdateFakeQuantizers(S, steps) ==
    LET S1 == UpdateLoop(S, 1, steps) IN
    IF S1.exc # NoExc THEN S1
    ELSE [Call(S1, "owlite_status", 0) EXCEPT !.owlite_status = CALIBRATED]

\* ------------------------------------------------------ the API objects
\* A Benchmarkable as its dataclass constructor leaves it, with what its
\* surroundings hold: whether a device is connected (OWLITE_DEVICE_NAME),
\* whether the user's tier is paid, whether input_signature is set, whether
\* the ONNX weight file exists at bin_path.
BenchNew(device, paid, signature, bin_exists) ==
    [ device |-> device, paid |-> paid, signature |-> signature,
      bin_exists |-> bin_exists,
      key |-> 0,              \* cached benchmark_key (0: nothing cached)
      key_posts |-> 0,        \* requests sent to /projects/runs/keys
      pc |-> "idle",          \* position of orchestrate_trt_benchmark
      runs |-> 0,             \* orchestrations started
      steps |-> << >>,        \* steps the current orchestration reached
      completed |-> 0,        \* steps of it that returned
      count |-> 0,            \* poll_trt_benchmark: count
      benchmark_status |-> "IDLE",
      upload_weight |-> FALSE,
      handler |-> "original", \* the process's SIGINT handler
      saved |-> "original",   \* poll_trt_benchmark: original_sigint_handler
      uploads |-> 0,          \* weight uploads of the current poll
      last |-> [status |-> "IDLE", url |-> ""],  \* the last queue reply
      queries |-> 0,          \* replies of the current poll that left it running
      since |-> 0,            \* loop iterations since the last queue request
      settled |-> FALSE,      \* the queue answers terminal statuses from now on
      requests |-> << >>,     \* requests the running step sent
      exc |-> NoExc ]

\* An Experiment object: its name, has_config, the classmethod that built it
\* and its identity; NoExperiment stands for None.
NoExperiment == [name |-> 0, has_config |-> FALSE, origin |-> "None", id |-> 0]

\* A Baseline with no experiment registered: baseline.experiments by name,
\* the value the last classmethod returned, what the server answered to its
\* requests, the objects built so far.
ExptNew ==
    [ experiments |-> [n \in 1 .. NNames |-> NoExperiment],
      returned |-> NoExperiment,
      answer |-> "None",      \* the answer to the last /projects/runs/info
      made |-> 0,             \* Experiment objects constructed
      calls |-> 0,            \* classmethods called
      requests |-> << >>,     \* requests the running call sent
      exc |-> NoExc ]

\* ------------------------------------------------------------------ actions
Commit(S) ==
    /\ is_enabled' = S.is_enabled
    /\ step_size' = S.step_size
    /\ zero_point' = S.zero_point
    /\ hooks' = S.hooks
    /\ hook_handler' = S.hook_handler
    /\ histogram' = S.histogram
    /\ bin_edges' = S.bin_edges
    /\ histc_bins' = S.histc_bins
    /\ determinism' = S.determinism
    /\ owlite_status' = S.owlite_status
    /\ derived' = S.derived
    /\ trace' = S.trace

Init ==
    /\ calibrator \in [Q -> CalibratorChoices \cup {NoCalibrator}]
    /\ is_enabled = [q \in Q |-> TRUE]
    /\ step_size = [q \in Q |-> [c \in Ch |-> 1]]
    /\ zero_point = [q \in Q |-> [c \in Ch |-> 0]]
    /\ hooks = [q \in Q |-> 0]
    /\ hook_handler = [q \in Q |-> FALSE]
    /\ histogram = [q \in Q |-> << >>]
    /\ bin_edges = [q \in Q |-> << >>]
    /\ histc_bins = [q \in Q |-> << >>]
    /\ determinism \in {[enabled |-> FALSE, warn_only |-> FALSE],
                        [enabled |-> TRUE, warn_only |-> FALSE]}
    /\ owlite_status = COMPRESSED
    /\ depth = 0
    /\ batches = 0
    /\ pending = NoExc
    /\ raised = NoExc
    /\ op = "init"
    /\ derived = [q \in Q |-> << >>]
    /\ trace = << >>
    /\ ret = "None"
    /\ spare = NoSpare
    /\ begun = FALSE
    /\ bench = BenchNew(FALSE, FALSE, FALSE, FALSE)
    /\ expt = ExptNew

\* CalibrationContext.__enter__, reached by a with-statement
EnterResult(S) == PrepareForCalibration(S)

Enter ==
    /\ UNCHANGED << bench, expt >>
    /\ pending = NoExc
    /\ depth < MaxDepth
    /\ \E S \in {EnterResult(Store)} :
        /\ Commit(S)
        /\ raised' = S.exc
        /\ depth' = IF S.exc = NoExc THEN depth + 1 ELSE depth
        /\ pending' = IF S.exc # NoExc /\ depth >= 1 THEN S.exc ELSE NoExc
        /\ batches' = IF S.exc = NoExc THEN 0 ELSE batches
    /\ op' = "enter"
    /\ ret' = "None"
    /\ UNCHANGED << calibrator, spare, begun >>

\* model(*data): one forward pass; every registered hook sees its batch
RECURSIVE ForwardLoop(_, _, _)
ForwardLoop(S, i, b) ==
    IF i > Len(NamedModules) THEN S
    ELSE LET q == NamedModules[i]
         IN ForwardLoop(RunHooks(S, q, b[q], S.hooks[q]), i + 1, b)

\* the batches quantizer q's hooks can be shown: a quantizer without a
\* recording hook observes nothing, whatever passes through it
BatchesOf(q) ==
    IF hooks[q] > 0 /\ calibrator[q].kind = "percentile" THEN Batches ELSE {[c \in Ch |-> 0]}

Forward ==
    /\ UNCHANGED << bench, expt >>
    /\ pending = NoExc
    /\ batches < MaxBatches
    /\ \E b \in Product([q \in Q |-> BatchesOf(q)], NQ) :
          \E S \in {ForwardLoop(Store, 1, b)} : Commit(S)
    /\ batches' = IF \E q \in Q : hooks[q] > 0 THEN batches + 1 ELSE batches
    /\ op' = "forward"
    /\ raised' = NoExc
    /\ ret' = "None"
    /\ UNCHANGED << calibrator, depth, pending, spare, begun >>

\* the block enclosed by the with-statement raises
BlockRaise ==
    /\ UNCHANGED << bench, expt >>
    /\ depth >= 1
    /\ pending = NoExc
    /\ pending' = "RuntimeError"
    /\ op' = "raise"
    /\ raised' = NoExc
    /\ trace' = << >>
    /\ derived' = [q \in Q |-> << >>]
    /\ UNCHANGED << calibrator, is_enabled, step_size, zero_point, hooks, hook_handler,
                    histogram, bin_edges, histc_bins, determinism,
                    owlite_status, depth, batches, ret, spare, begun >>

\* CalibrationContext.__exit__(exc_type, exc_val, exc_tb): runs the update and
\* returns None, so the with-statement re-raises the block's exception
\* __exit__ that finalizes only when the block ended normally
ExitResultSkip(S, exc_type, steps) ==
    IF exc_type # NoExc THEN [S EXCEPT !.exc = exc_type]
    ELSE UpdateFakeQuantizers(S, steps)

ExitResult(S, exc_type, steps) ==
    LET S1 == UpdateFakeQuantizers(S, steps) IN
    IF S1.exc # NoExc THEN S1 ELSE [S1 EXCEPT !.exc = exc_type]

\* the step sizes q's calibrator can derive by itself: a PercentileCalibrator
\* computes them from its histogram, another implementation derives any
StepsOf(q) ==
    IF calibrator[q].kind = "percentile" THEN {[c \in Ch |-> 0]} ELSE StepChoices

Exit ==
    /\ UNCHANGED << bench, expt >>
    /\ depth >= 1
    /\ \E steps \in Product([q \in Q |-> StepsOf(q)], NQ) :
          \E S \in {ExitResult(Store, pending, steps)} :
                /\ Commit(S)
                /\ raised' = S.exc
                /\ pending' = IF depth > 1 THEN S.exc ELSE NoExc
    /\ depth' = depth - 1
    /\ batches' = 0
    /\ op' = "exit"
    /\ ret' = "None"
    /\ UNCHANGED << calibrator, spare, begun >>

Next == Enter \/ Forward \/ BlockRaise \/ Exit

Spec == Init /\ [][Next]_vars

\* ------------------------------------------- the calibrator, driven directly
\* The methods of one PercentileCalibrator called by hand on the first
\* quantizer of the model, outside any CalibrationContext: the constructor,
\* check_calib_ready(), prepare(), the forward hook and update().
Target == NamedModules[1]

\* the percentiles the quantizers' calibrators are built with
PctChoices == {0, 50, 100}
\* the percentiles a caller passes to the constructor
PctInputs == {-1, 0, 50, 100, 101}

\* the batches the hook is shown, richer than those of a forward pass above
CalBatches ==
    { [c \in Ch |-> 0],
      [c \in Ch |-> Mag],
      [c \in Ch |-> IF c = 1 THEN 2 * Mag ELSE Mag],
      [c \in Ch |-> IF c = 1 THEN Mag ELSE 0] }

InitCal ==
    /\ \E p \in PctChoices :
          calibrator = [q \in Q |-> [kind |-> "percentile", percentile |-> p]]
    /\ is_enabled = [q \in Q |-> TRUE]
    /\ step_size = [q \in Q |-> [c \in Ch |-> 1]]
    /\ zero_point = [q \in Q |-> [c \in Ch |-> 0]]
    /\ hooks = [q \in Q |-> 0]
    /\ hook_handler = [q \in Q |-> FALSE]
    /\ histogram = [q \in Q |-> << >>]
    /\ bin_edges = [q \in Q |-> << >>]
    /\ histc_bins = [q \in Q |-> << >>]
    /\ determinism \in {[enabled |-> FALSE, warn_only |-> FALSE],
                        [enabled |-> TRUE, warn_only |-> FALSE]}
    /\ owlite_status = COMPRESSED
    /\ depth = 0
    /\ batches = 0
    /\ pending = NoExc
    /\ raised = NoExc
    /\ op = "init"
    /\ derived = [q \in Q |-> << >>]
    /\ trace = << >>
    /\ ret = "None"
    /\ spare = NoSpare
    /\ begun = FALSE
    /\ bench = BenchNew(FALSE, FALSE, FALSE, FALSE)
    /\ expt = ExptNew

\* what a direct call leaves alone
Outside == UNCHANGED << calibrator, depth, pending >>

\* PercentileCalibrator(quantizer, percentile): the object exists only when
\* __init__ returned
Construct ==
    /\ UNCHANGED << bench, expt >>
    /\ \E p \in PctInputs :
          \E S \in {PercentileInit(Call(Store, "PercentileCalibrator", p), Target, p)} :
                /\ Commit(S)
                /\ raised' = S.exc
                /\ spare' = IF S.exc # NoExc THEN NoSpare
                            ELSE [kind |-> "percentile", percentile |-> p, quantizer |-> Target]
    /\ op' = "construct"
    /\ ret' = "None"
    /\ UNCHANGED << batches, begun >>
    /\ Outside

\* check_calib_ready() on the quantizer's own calibrator or on the spare one
CheckReady ==
    /\ UNCHANGED << bench, expt >>
    /\ \E self \in {QuantizerCalibrator(Target)} \cup (IF spare = NoSpare THEN {} ELSE {0}) :
          \E S \in {CheckCalibReady(Call(Store, "check_calib_ready", self), self, Target)} :
                /\ Commit(S)
                /\ raised' = S.exc
                /\ ret' = S.ret
    /\ op' = "check_calib_ready"
    /\ UNCHANGED << batches, spare, begun >>
    /\ Outside

\* quantizer.disable() and quantizer.enable(), called by hand
QuantizerDisable ==
    /\ UNCHANGED << bench, expt >>
    /\ is_enabled[Target]
    /\ \E S \in {Disable(Store, Target)} : Commit(S) /\ raised' = S.exc
    /\ op' = "disable"
    /\ ret' = "None"
    /\ spare' = NoSpare
    /\ UNCHANGED << batches, begun >>
    /\ Outside

QuantizerEnable ==
    /\ UNCHANGED << bench, expt >>
    /\ ~is_enabled[Target]
    /\ \E S \in {Enable(Store, Target)} : Commit(S) /\ raised' = S.exc
    /\ op' = "enable"
    /\ ret' = "None"
    /\ spare' = NoSpare
    /\ UNCHANGED << batches, begun >>
    /\ Outside

\* calibrator.prepare(); one observation phase is followed per behaviour
CallPrepare ==
    /\ UNCHANGED << bench, expt >>
    /\ ~begun \/ Prepared(Store, Target)
    /\ \E S \in {Prepare(Store, Target)} :
          /\ Commit(S)
          /\ raised' = S.exc
          /\ batches' = IF S.exc = NoExc THEN 0 ELSE batches
    /\ op' = "prepare"
    /\ ret' = "None"
    /\ spare' = NoSpare
    /\ begun' = TRUE
    /\ Outside

\* a batch passes through the quantizer: its registered hooks run
CallHook ==
    /\ UNCHANGED << bench, expt >>
    /\ hooks[Target] > 0
    /\ batches < MaxObs
    /\ \E b \in CalBatches :
          \E S \in {RunHooks(Store, Target, b, hooks[Target])} : Commit(S) /\ raised' = S.exc
    /\ batches' = batches + 1
    /\ op' = "hook"
    /\ ret' = "None"
    /\ spare' = NoSpare
    /\ UNCHANGED begun
    /\ Outside

\* calibrator.update(); the tensor operations of one channel of its loop may
\* raise (an error of the device, an interrupt)
CallUpdate ==
    /\ UNCHANGED << bench, expt >>
    /\ \E fault \in 0 .. NCh :
          \E S \in {PercentileUpdate([Store EXCEPT !.fault = fault], Target)} :
                /\ Commit(S)
                /\ raised' = S.exc
    /\ op' = "update"
    /\ ret' = "None"
    /\ spare' = NoSpare
    /\ UNCHANGED << batches, begun >>
    /\ Outside

NextCal ==
    \/ Construct
    \/ CheckReady
    \/ QuantizerDisable
    \/ QuantizerEnable
    \/ CallPrepare
    \/ CallHook
    \/ CallUpdate

SpecCal == InitCal /\ [][NextCal]_vars

\* ------------------------------------------------------------ benchmarkable.py
\* BenchmarkStatus (owlite/enums/owlite_api.py) by the members and properties
\* benchmarkable.py uses: in_progress and failed are read by their names
InProgressStatuses == {"PRE_FETCHING", "BENCHMARKING"}
FailedStatuses == {"FETCHING_ERR", "TIMEOUT_ERR", "BENCHMARK_ERR", "WEIGHT_GEN_ERR"}
Statuses ==
    {"IDLE", "BENCHMARK_DONE", "STATUS_NOT_FOUND"} \cup InProgressStatuses \cup FailedStatuses
InProgress(status) == status \in InProgressStatuses
Failed(status) == status \in FailedStatuses
Terminal(status) == status \in {"BENCHMARK_DONE", "STATUS_NOT_FOUND"} \cup FailedStatuses

\* new_status.PRE_FETCHING: the member PRE_FETCHING looked up through another
\* member, an enum member and so a true value whatever new_status is
MemberPreFetching(status) == TRUE

\* the quantities of the polling loop
PollEvery == 5
CountModulus == 20

\* a counter that never comes back to a multiple of PollEvery
NextCountStuck(count) == (count % (PollEvery - 1)) + 1

\* count = (count + 1) % 20
NextCount(count) == (count + 1) % CountModulus

\* what the queue can answer: a status and an upload URL, empty or not; or
\* the request fails with an HTTP error
Replies == [status : Statuses \cup {"HTTPError"}, url : {"", "url"}]
Responses == {"OK", "HTTPError"}

Post(B, endpoint, key) == [B EXCEPT !.requests = Append(@, << endpoint, key >>)]
Raise(B, exc) == [B EXCEPT !.exc = exc, !.pc = "raised"]

\* get_device_name()
GetDeviceName(B) == IF B.device THEN B ELSE [B EXCEPT !.exc = "RuntimeError"]

\* the property recomputed at every access instead of cached
BenchmarkKeyUncached(B, resp) ==
    IF ~B.signature THEN [B EXCEPT !.exc = "RuntimeError"]
    ELSE LET B1 == [Post(B, "/projects/runs/keys", 0) EXCEPT !.key_posts = @ + 1] IN
         IF resp = "HTTPError" THEN [B1 EXCEPT !.exc = "HTTPError"]
         ELSE [B1 EXCEPT !.key = B1.key_posts]

\* Benchmarkable.benchmark_key, a cached_property: the server answers each
\* request with a new key
BenchmarkKey(B, resp) ==
    IF B.key # 0 THEN B
    ELSE IF ~B.signature THEN [B EXCEPT !.exc = "RuntimeError"]
    ELSE LET B1 == [Post(B, "/projects/runs/keys", 0) EXCEPT !.key_posts = @ + 1] IN
         IF resp = "HTTPError" THEN [B1 EXCEPT !.exc = "HTTPError"]
         ELSE [B1 EXCEPT !.key = B1.key_posts]

\* a request to the device manager carrying device_name and benchmark_key
DevicePost(B, endpoint, keyresp, resp) ==
    LET B1 == GetDeviceName(B) IN
    IF B1.exc # NoExc THEN B1
    ELSE LET B2 == BenchmarkKey(B1, keyresp) IN
         IF B2.exc # NoExc THEN B2
         ELSE LET B3 == Post(B2, endpoint, B2.key) IN
              IF resp = "HTTPError" THEN [B3 EXCEPT !.exc = "HTTPError"] ELSE B3

RequestTrtBenchmark(B, keyresp, resp) == DevicePost(B, "/devices/jobs/assign", keyresp, resp)
GetBenchmarkQueue(B, keyresp, resp) == DevicePost(B, "/devices/jobs/queue", keyresp, resp)
ClearTrtEngine(B, keyresp, resp) == DevicePost(B, "/devices/clear", keyresp, resp)
DownloadTrtEngine(B, keyresp, resp) == DevicePost(B, "/devices/trt", keyresp, resp)
GetTrtBenchmarkResult(B, resp) ==
    LET B1 == Post(B, "/projects/runs/info", 0) IN
    IF resp = "HTTPError" THEN [B1 EXCEPT !.exc = "HTTPError"] ELSE B1

\* upload_weight_file(bin_url)
UploadWeightFile(B) ==
    IF ~B.bin_exists THEN [B EXCEPT !.exc = "FileNotFoundError"]
    ELSE [Post(B, "upload_file_to_url", 0) EXCEPT !.uploads = @ + 1]

\* the end of one iteration of the loop: count = (count + 1) % 20, sleep
Tick(B) ==
    [B EXCEPT !.count = NextCount(B.count),
              !.since = IF @ > PollEvery THEN @ ELSE @ + 1]

\* a failed status kept polling instead of raising
PollDispatchIgnoreFailed(B, status) ==
    IF B.benchmark_status # status /\ InProgress(status)
    THEN Tick([B EXCEPT !.benchmark_status = status, !.count = 0])
    ELSE IF status = "BENCHMARK_DONE" THEN [B EXCEPT !.handler = B.saved, !.pc = "polled"]
    ELSE Tick(B)

\* lines 288-310: what the loop does with the status of the reply
PollDispatch(B, status) ==
    IF B.benchmark_status # status /\ InProgress(status)
    THEN Tick([B EXCEPT !.benchmark_status = status, !.count = 0])
    ELSE IF status = "BENCHMARK_DONE" THEN [B EXCEPT !.handler = B.saved, !.pc = "polled"]
    ELSE IF Failed(status) THEN Raise(B, "RuntimeError")
    ELSE Tick(B)

\* lines 283-286: the weight upload a reply can trigger
PollUpload(B, reply) ==
    IF B.upload_weight /\ MemberPreFetching(reply.status) /\ reply.url # ""
    THEN LET B1 == UploadWeightFile(B) IN
         IF B1.exc # NoExc THEN Raise(B1, B1.exc) ELSE [B1 EXCEPT !.upload_weight = FALSE]
    ELSE B

\* one iteration of the while loop of poll_trt_benchmark; reply is what the
\* queue answers if this iteration asks it
PollIteration(B, reply) ==
    IF B.count % PollEvery # 0 THEN Tick(B)
    ELSE
        LET B1 == GetBenchmarkQueue(B, "OK", IF reply.status = "HTTPError" THEN "HTTPError" ELSE "OK")
            B2 == [B1 EXCEPT !.since = 0, !.last = reply,
                             !.queries = IF Terminal(reply.status) THEN @ ELSE @ + 1]
        IN IF B2.exc # NoExc THEN Raise(B2, B2.exc)
           ELSE IF reply.status = "STATUS_NOT_FOUND" THEN Raise(B2, "RuntimeError")
           ELSE LET B3 == PollUpload(B2, reply) IN
                IF B3.exc # NoExc THEN B3 ELSE PollDispatch(B3, reply.status)

\* lines 261-270: the handler is installed and the loop variables are set
PollBegin(B) ==
    [B EXCEPT !.saved = B.handler, !.handler = "polling",
              !.count = 0, !.benchmark_status = "IDLE",
              !.upload_weight = B.paid, !.uploads = 0, !.queries = 0, !.since = 0,
              !.steps = Append(@, "poll_trt_benchmark"), !.pc = "poll"]

\* the calibration side stands still while the API objects act
Quiet ==
    UNCHANGED << calibrator, is_enabled, step_size, zero_point, hooks, hook_handler,
                 histogram, bin_edges, histc_bins, determinism, owlite_status,
                 depth, batches, pending, derived, ret, spare, begun >>

\* the step of the running action taken over into the state
CommitBench(B, name) ==
    /\ bench' = [B EXCEPT !.requests = << >>, !.exc = NoExc]
    /\ trace' = B.requests
    /\ raised' = B.exc
    /\ op' = name
    /\ UNCHANGED expt
    /\ Quiet

\* a step of the orchestration begins: the method is called
Step(B, step) == [B EXCEPT !.steps = Append(@, step)]

\* a step that raised followed by the statement after it all the same
DoneAnyway(B, next) ==
    IF B.exc # NoExc THEN [B EXCEPT !.pc = next]
    ELSE [B EXCEPT !.completed = @ + 1, !.pc = next]

\* a step ended: by raising, which ends the orchestration, or by returning,
\* which lets the statement after it run
Done(B, next) ==
    IF B.exc # NoExc THEN Raise(B, B.exc)
    ELSE [B EXCEPT !.completed = @ + 1, !.pc = next]

InitBench ==
    /\ \E device, paid, signature, bin_exists \in BOOLEAN :
          bench = BenchNew(device, paid, signature, bin_exists)
    /\ expt = ExptNew
    /\ calibrator = [q \in Q |-> NoCalibrator]
    /\ is_enabled = [q \in Q |-> TRUE]
    /\ step_size = [q \in Q |-> [c \in Ch |-> 1]]
    /\ zero_point = [q \in Q |-> [c \in Ch |-> 0]]
    /\ hooks = [q \in Q |-> 0]
    /\ hook_handler = [q \in Q |-> FALSE]
    /\ histogram = [q \in Q |-> << >>]
    /\ bin_edges = [q \in Q |-> << >>]
    /\ histc_bins = [q \in Q |-> << >>]
    /\ determinism = [enabled |-> FALSE, warn_only |-> FALSE]
    /\ owlite_status = COMPRESSED
    /\ depth = 0
    /\ batches = 0
    /\ pending = NoExc
    /\ raised = NoExc
    /\ op = "init"
    /\ derived = [q \in Q |-> << >>]
    /\ trace = << >>
    /\ ret = "None"
    /\ spare = NoSpare
    /\ begun = FALSE

\* owl.export: the ONNX proto is exported and input_signature is set
Export ==
    /\ bench.pc \in {"idle", "returned", "raised"}
    /\ ~bench.signature
    /\ CommitBench([bench EXCEPT !.signature = TRUE], "export")

\* orchestrate_trt_benchmark up to and including request_trt_benchmark
Orchestrate ==
    /\ bench.pc \in {"idle", "returned", "raised"}
    /\ bench.runs < MaxRuns
    /\ \E keyresp \in Responses, resp \in Responses :
          LET B0 == [bench EXCEPT !.runs = @ + 1, !.steps = << >>, !.completed = 0] IN
          IF ~B0.device THEN CommitBench([B0 EXCEPT !.pc = "returned"], "orchestrate")
          ELSE CommitBench(Done(RequestTrtBenchmark(Step(B0, "request_trt_benchmark"),
                                                    keyresp, resp), "poll_start"),
                           "orchestrate")

\* poll_trt_benchmark entered
PollStart ==
    /\ bench.pc = "poll_start"
    /\ CommitBench(PollBegin(bench), "poll_start")

\* one iteration of the polling loop; the queue is asked only in an iteration
\* whose count is a multiple of PollEvery
PollTick ==
    /\ bench.pc = "poll"
    /\ \E reply \in Replies :
          /\ (bench.count % PollEvery # 0) => reply = [status |-> "IDLE", url |-> ""]
          /\ (bench.count % PollEvery = 0) =>
                (Terminal(reply.status) \/ (~bench.settled /\ bench.queries < MaxQueries))
          /\ \E B \in {PollIteration(bench, reply)} :
                CommitBench(IF B.pc = "polled" THEN Done(B, "result") ELSE B, "poll")

\* the user presses CTRL-C while polling: the polling handler calls
\* sys.exit, and the interpreter leaves
Sigint ==
    /\ bench.pc = "poll"
    /\ bench.handler = "polling"
    /\ CommitBench([Raise(bench, "SystemExit") EXCEPT !.pc = "exited"], "sigint")

\* from now on the queue answers terminal statuses only
Settle ==
    /\ bench.pc = "poll"
    /\ ~bench.settled
    /\ CommitBench([bench EXCEPT !.settled = TRUE], "settle")

\* get_trt_benchmark_result and the branch on the tier that follows it
Result ==
    /\ bench.pc = "result"
    /\ \E resp \in Responses :
          \E B \in {GetTrtBenchmarkResult(Step(bench, "get_trt_benchmark_result"), resp)} :
              CommitBench(Done(B, IF B.paid THEN "download" ELSE "clear"), "result")

Download ==
    /\ bench.pc = "download"
    /\ \E resp \in Responses :
          CommitBench(Done(DownloadTrtEngine(Step(bench, "download_trt_engine"), "OK", resp),
                           "clear"), "download")

ClearEngine ==
    /\ bench.pc = "clear"
    /\ \E resp \in Responses :
          CommitBench(Done(ClearTrtEngine(Step(bench, "clear_trt_engine"), "OK", resp),
                           "returned"), "clear")

NextBench ==
    \/ Export
    \/ Orchestrate
    \/ PollStart
    \/ PollTick
    \/ Sigint
    \/ Settle
    \/ Result
    \/ Download
    \/ ClearEngine

SpecBench == InitBench /\ [][NextBench]_vars

\* the polling loop keeps running: time.sleep returns and the next iteration
\* starts
SpecBenchFair == SpecBench /\ WF_vars(PollTick)

\* ---------------------------------------------------------------- experiment.py
\* what the server answers to /projects/runs/info: the run with or without a
\* config_id, a body that is no dict, 404, another HTTP status, or an
\* HTTPError that carries no response
LoadAnswers == {"config", "no config", "not a dict", "404", "500", "no response"}
CreateAnswers == {"200", "400", "500"}

\* cls(name=name, baseline=baseline, has_config=has_config): a new object
NewExperiment(E, name, has_config, origin) ==
    [name |-> name, has_config |-> has_config, origin |-> origin, id |-> E.made + 1]

\* baseline.experiments[name] = experiment; return experiment
Register(E, experiment) ==
    [E EXCEPT !.experiments[experiment.name] = experiment, !.returned = experiment,
              !.made = experiment.id]

\* a load that takes every HTTP error for a missing experiment
ExperimentLoadSwallow(E, name, answer) ==
    LET E1 == [E EXCEPT !.requests = Append(@, << "/projects/runs/info", name >>),
                        !.answer = answer, !.returned = NoExperiment]
    IN IF answer \in {"404", "500", "no response"} THEN E1
       ELSE IF answer = "not a dict" THEN [E1 EXCEPT !.exc = "AssertionError"]
       ELSE Register(E1, NewExperiment(E1, name, answer = "config", "load"))

\* Experiment.load(baseline, name)
ExperimentLoad(E, name, answer) ==
    LET E1 == [E EXCEPT !.requests = Append(@, << "/projects/runs/info", name >>),
                        !.answer = answer, !.returned = NoExperiment]
    IN IF answer = "404" THEN E1
       ELSE IF answer \in {"500", "no response"} THEN [E1 EXCEPT !.exc = "HTTPError"]
       ELSE IF answer = "not a dict" THEN [E1 EXCEPT !.exc = "AssertionError"]
       ELSE Register(E1, NewExperiment(E1, name, answer = "config", "load"))

\* Experiment.create(baseline, name)
ExperimentCreate(E, name, answer) ==
    LET E1 == [E EXCEPT !.requests = Append(@, << "/projects/runs", name >>),
                        !.returned = NoExperiment]
    IN IF answer # "200" THEN [E1 EXCEPT !.exc = "HTTPError"]
       ELSE Register(E1, NewExperiment(E1, name, FALSE, "create"))

\* Experiment.load_or_create(baseline, name): cls.load(...) or cls.create(...),
\* an Experiment being a true value and None a false one
ExperimentLoadOrCreate(E, name, answer, created) ==
    LET E1 == ExperimentLoad(E, name, answer) IN
    IF E1.exc # NoExc THEN E1
    ELSE IF E1.returned # NoExperiment THEN E1
    ELSE ExperimentCreate(E1, name, created)

\* the call of the running action taken over into the state
CommitExp(E, name) ==
    /\ expt' = [E EXCEPT !.requests = << >>, !.exc = NoExc, !.calls = @ + 1]
    /\ trace' = E.requests
    /\ raised' = E.exc
    /\ op' = name
    /\ UNCHANGED bench
    /\ Quiet

InitExp ==
    /\ expt = ExptNew
    /\ bench = BenchNew(FALSE, FALSE, FALSE, FALSE)
    /\ calibrator = [q \in Q |-> NoCalibrator]
    /\ is_enabled = [q \in Q |-> TRUE]
    /\ step_size = [q \in Q |-> [c \in Ch |-> 1]]
    /\ zero_point = [q \in Q |-> [c \in Ch |-> 0]]
    /\ hooks = [q \in Q |-> 0]
    /\ hook_handler = [q \in Q |-> FALSE]
    /\ histogram = [q \in Q |-> << >>]
    /\ bin_edges = [q \in Q |-> << >>]
    /\ histc_bins = [q \in Q |-> << >>]
    /\ determinism = [enabled |-> FALSE, warn_only |-> FALSE]
    /\ owlite_status = COMPRESSED
    /\ depth = 0
    /\ batches = 0
    /\ pending = NoExc
    /\ raised = NoExc
    /\ op = "init"
    /\ derived = [q \in Q |-> << >>]
    /\ trace = << >>
    /\ ret = "None"
    /\ spare = NoSpare
    /\ begun = FALSE

Load ==
    /\ expt.calls < MaxCalls
    /\ \E name \in 1 .. NNames, answer \in LoadAnswers :
          CommitExp(ExperimentLoad(expt, name, answer), "load")

Create ==
    /\ expt.calls < MaxCalls
    /\ \E name \in 1 .. NNames, answer \in CreateAnswers :
          CommitExp(ExperimentCreate(expt, name, answer), "create")

LoadOrCreate ==
    /\ expt.calls < MaxCalls
    /\ \E name \in 1 .. NNames, answer \in LoadAnswers, created \in CreateAnswers :
          CommitExp(ExperimentLoadOrCreate(expt, name, answer, created), "load_or_create")

NextExp ==
    \/ Load
    \/ Create
    \/ LoadOrCreate

SpecExp == InitExp /\ [][NextExp]_vars

\* --------------------------------------------------------------- properties
Range(t) == {t[i] : i \in DOMAIN t}
Count(t, e) == Cardinality({i \in DOMAIN t : t[i] = e})
AllZero(s) == \A c \in DOMAIN s : s[c] = 0
HasNegative(s) == \E c \in DOMAIN s : s[c] < 0

\* the exit that just ended ran _update_fake_quantizers to completion
ExitDone == op = "exit" /\ trace # << >> /\ trace[Len(trace)] = << "owlite_status", 0 >>

\* C1: after a CalibrationContext exit whose _update_fake_quantizers ran to
\* completion, every quantizer whose derived step_size is not all-zero is
\* enabled and the model's owlite_status is CALIBRATED.
ThmC1 ==
    ExitDone =>
        /\ \A q \in Q : ~AllZero(derived[q]) => is_enabled[q]
        /\ owlite_status = CALIBRATED

WitC1 ==
    /\ ExitDone
    /\ \E q \in Q : ~AllZero(derived[q]) /\ is_enabled[q]
    /\ owlite_status = CALIBRATED

\* C2: an entry disables each quantizer before it calls prepare() on its
\* calibrator, quantizer by quantizer in the order of named_modules; when the
\* entry completes without error every quantizer is disabled and prepared,
\* with its hook attached.
ThmC2 ==
    op = "enter" =>
        /\ \A i \in DOMAIN trace :
              trace[i][1] = "prepare" =>
                  i > 1 /\ trace[i - 1] = << "disable", trace[i][2] >>
        /\ raised = NoExc =>
              /\ trace = [i \in 1 .. 2 * NQ |->
                            IF i % 2 = 1 THEN << "disable", NamedModules[(i + 1) \div 2] >>
                            ELSE << "prepare", NamedModules[i \div 2] >>]
              /\ \A q \in Q :
                    /\ ~is_enabled[q]
                    /\ histc_bins[q] # << >>
                    /\ hook_handler[q]
                    /\ hooks[q] >= 1

WitC2 ==
    /\ op = "enter"
    /\ raised = NoExc
    /\ owlite_status = COMPRESSED
    /\ \A q \in Q : ~is_enabled[q] /\ hooks[q] = 1

\* C3: when the block enclosed by the CalibrationContext raised, the exit
\* still calls update() on the calibrator of every quantizer and sets the
\* status marker, and the block's exception reaches the caller: it is not
\* suppressed.
ThmC3 ==
    [][ (op' = "exit" /\ pending # NoExc) =>
            /\ \A q \in Q : Count(trace', << "update", q >>) = 1
            /\ owlite_status' = CALIBRATED
            /\ raised' = pending ]_vars

WitC3 ==
    /\ ExitDone
    /\ raised = "RuntimeError"
    /\ owlite_status = CALIBRATED
    /\ \A q \in Q : << "update", q >> \in Range(trace)

\* C4 as stated: a quantizer whose step_size after update() is zero in every
\* channel is logged as an error and is nevertheless enabled by the exit.
CexC4 ==
    ExitDone =>
        \A q \in Q :
            AllZero(derived[q]) =>
                << "log.error", q >> \in Range(trace) /\ is_enabled[q]

\* C4, amended: a quantizer whose step_size after update() is zero in every
\* channel is logged as an error and is not enabled by the exit: enable() is
\* not called on it and it stays disabled, unlike a non-degenerate quantizer.
ThmC4 ==
    ExitDone =>
        \A q \in Q :
            AllZero(derived[q]) =>
                /\ << "log.error", q >> \in Range(trace)
                /\ << "enable", q >> \notin Range(trace)
                /\ ~is_enabled[q]

WitC4 ==
    /\ ExitDone
    /\ \E q \in Q : AllZero(derived[q]) /\ ~is_enabled[q]
    /\ \E q \in Q : ~AllZero(derived[q]) /\ is_enabled[q]

\* C5: a quantizer with an all-zero derived step_size does not abort the
\* finalization: the exit calls update() exactly once on the calibrator of
\* every quantizer, wherever the degenerate one stands in the iteration
\* order, and sets the status marker to CALIBRATED.
ThmC5 ==
    (op = "exit" /\ \E q \in Q : AllZero(derived[q])) =>
        /\ \A q \in Q : Count(trace, << "update", q >>) = 1
        /\ \A q \in Q : derived[q] # << >>
        /\ ExitDone
        /\ owlite_status = CALIBRATED

WitC5 ==
    /\ op = "exit"
    /\ AllZero(derived[1])
    /\ \E q \in Q : derived[q] # << >> /\ ~AllZero(derived[q])
    /\ \A q \in Q : Count(trace, << "update", q >>) = 1

\* C6: a quantizer whose step_size after update() has a negative channel and
\* is not all-zero gets the element-wise absolute value as its step_size,
\* with a warning, and is then enabled; after the exit no quantizer of the
\* model has a negative step_size channel.
ThmC6 ==
    ExitDone =>
        /\ \A q \in Q : \A c \in Ch : step_size[q][c] >= 0
        /\ \A q \in Q :
              (HasNegative(derived[q]) /\ ~AllZero(derived[q])) =>
                  /\ step_size[q] = [c \in Ch |-> Abs(derived[q][c])]
                  /\ << "log.warning", q >> \in Range(trace)
                  /\ is_enabled[q]

WitC6 ==
    /\ ExitDone
    /\ \E q \in Q :
          /\ HasNegative(derived[q])
          /\ step_size[q] = [c \in Ch |-> Abs(derived[q][c])]
          /\ \E c \in Ch : step_size[q][c] > 0 /\ derived[q][c] > 0
          /\ is_enabled[q]

\* C7: prepare() on a calibrator whose temporary observation state exists
\* raises ValueError and registers no second hook; the entry stops there, so
\* an entry on a model whose quantizers are already prepared (a nested entry)
\* raises that ValueError to its caller.
ThmC7 ==
    [][ op' = "enter" =>
            /\ \A q \in Q :
                  (<< "prepare", q >> \in Range(trace') /\ histc_bins[q] # << >>) =>
                      /\ raised' = "ValueError"
                      /\ trace'[Len(trace')] = << "prepare", q >>
                      /\ hooks'[q] = hooks[q]
                      /\ histogram'[q] = histogram[q]
            /\ (\A q \in Q : histc_bins[q] # << >>) =>
                  /\ raised' = "ValueError"
                  /\ hooks' = hooks
                  /\ depth' = depth
                  /\ depth >= 1 => pending' = "ValueError" ]_vars

WitC7 ==
    /\ op = "enter"
    /\ raised = "ValueError"
    /\ pending = "ValueError"
    /\ depth = 1
    /\ trace = << << "disable", NamedModules[1] >>, << "prepare", NamedModules[1] >> >>
    /\ \A q \in Q : hooks[q] = 1 /\ hook_handler[q]

ThmC9 == \A q \in Q : hooks[q] <= 1

WitC9 ==
    /\ owlite_status = CALIBRATED
    /\ op = "forward"
    /\ depth = 1
    /\ \A q \in Q : hooks[q] = 1

\* C10: when update() has returned, the hook is detached from the quantizer,
\* hook_handler is None and the histogram state is released; after an exit no
\* quantizer, degenerate or not, has a hook left.
ThmC10 ==
    ExitDone =>
        \A q \in Q :
            /\ hooks[q] = 0
            /\ ~hook_handler[q]
            /\ histogram[q] = << >>
            /\ bin_edges[q] = << >>
            /\ histc_bins[q] = << >>

WitC10 ==
    /\ ExitDone
    /\ \E q \in Q : calibrator[q].kind = "percentile" /\ AllZero(derived[q]) /\ hooks[q] = 0
    /\ \E q \in Q : calibrator[q].kind = "percentile" /\ ~AllZero(derived[q]) /\ hooks[q] = 0

\* the state of the quantizers, the calibrators and torch: everything but the
\* bookkeeping of the last operation
Program == << calibrator, is_enabled, step_size, zero_point, hooks, hook_handler, histogram,
              bin_edges, histc_bins, determinism, owlite_status >>

\* C11: check_calib_ready() raises nothing and changes no state of the
\* quantizer or the calibrator; it returns True exactly when the quantizer's
\* calibrator back-reference is the calibrator it is called on and the
\* quantizer is disabled, and False otherwise.
ThmC11 ==
    [][ op' = "check_calib_ready" =>
            /\ raised' = NoExc
            /\ UNCHANGED << Program, spare >>
            /\ ret' \in {"True", "False"}
            /\ ret' = "True" <=>
                  /\ trace'[1] = << "check_calib_ready", QuantizerCalibrator(Target) >>
                  /\ ~is_enabled[Target] ]_vars

WitC11 ==
    /\ op = "check_calib_ready"
    /\ ret = "True"
    /\ spare # NoSpare
    /\ ~is_enabled[Target]
    /\ hooks[Target] = 1

\* C12: constructing a PercentileCalibrator succeeds for every percentile p
\* with 0 <= p <= 100, the bounds 0 and 100 included, and keeps p; for every
\* p below 0 or above 100 it raises ValueError, no calibrator object exists
\* and no observation phase is entered.
ThmC12 ==
    [][ op' = "construct" =>
            LET p == trace'[1][2] IN
            /\ trace'[1][1] = "PercentileCalibrator"
            /\ (0 <= p /\ p <= 100) =>
                  /\ raised' = NoExc
                  /\ spare' = [kind |-> "percentile", percentile |-> p, quantizer |-> Target]
            /\ (p < 0 \/ p > 100) =>
                  /\ raised' = "ValueError"
                  /\ spare' = NoSpare
            /\ UNCHANGED Program ]_vars

WitC12 ==
    /\ op = "construct"
    /\ raised = NoExc
    /\ spare.kind = "percentile"
    /\ spare.percentile = 100

\* the step size update() derives for a channel with histogram h over the
\* edges e when the calibrator's percentile is p
StepAt(h, e, p) == e[Searchsorted(h, p)] \div MaxabsBound

\* C13: for every channel with a non-empty histogram, update() sets
\* step_size[channel] to bin_edges[channel][i] / maxabs_bound, where i is the
\* first index at which the cumulative count divided by the channel's total
\* count reaches percentile / 100; nothing of another channel enters it.
ThmC13 ==
    [][ (op' = "update" /\ raised' = NoExc) =>
            \A c \in Ch :
                LET h == histogram[Target][c]
                    e == bin_edges[Target][c]
                    p == calibrator[Target].percentile
                IN Sum(h) > 0 =>
                      \E i \in 1 .. HistcBins :
                          /\ 100 * SumTo(h, i) >= p * Sum(h)
                          /\ \A j \in 1 .. i - 1 : 100 * SumTo(h, j) < p * Sum(h)
                          /\ step_size'[Target][c] * MaxabsBound = e[i] ]_vars

WitC13 ==
    /\ op = "update"
    /\ raised = NoExc
    /\ batches = MaxObs
    /\ calibrator[Target].percentile = 50
    /\ step_size[Target][1] > step_size[Target][2]
    /\ step_size[Target][2] > 0

\* the percentiles update() is compared over
PctGrid == {0, 25, 50, 75, 100}

\* C14: for a fixed histogram and fixed bin edges the derived step size is
\* monotone in the percentile: update() with the calibrator's percentile
\* yields, channel by channel, no less than a smaller percentile would and no
\* more than a larger one would, and the step sizes along the grid of
\* percentiles never decrease.
ThmC14 ==
    [][ (op' = "update" /\ raised' = NoExc) =>
            \A c \in Ch : \A p \in PctGrid :
                LET h == histogram[Target][c]
                    e == bin_edges[Target][c]
                IN /\ p <= calibrator[Target].percentile =>
                        StepAt(h, e, p) <= step_size'[Target][c]
                   /\ p >= calibrator[Target].percentile =>
                        StepAt(h, e, p) >= step_size'[Target][c]
                   /\ (p + 25) \in PctGrid => StepAt(h, e, p) <= StepAt(h, e, p + 25) ]_vars

WitC14 ==
    /\ op = "hook"
    /\ \E c \in Ch :
          /\ StepAt(histogram[Target][c], bin_edges[Target][c], 25)
                < StepAt(histogram[Target][c], bin_edges[Target][c], 75)
          /\ StepAt(histogram[Target][c], bin_edges[Target][c], 75)
                = StepAt(histogram[Target][c], bin_edges[Target][c], 100)

\* C15: while a calibrator is prepared, the total count of each channel's
\* histogram equals the number of elements of all the batches observed since
\* prepare() (one element per channel and batch), also after an observation
\* whose magnitude exceeded the range and rebuilt the histogram.
ThmC15 ==
    Prepared(Store, Target) =>
        \A c \in Ch : Sum(histogram[Target][c]) = batches

WitC15 ==
    /\ op = "hook"
    /\ batches = MaxObs
    /\ bin_edges[Target][1][HistcBins + 1] = 2 * Mag
    /\ histogram[Target][1][1] >= 2
    /\ Sum(histogram[Target][1]) = MaxObs

\* quantizer q's calibrator is a prepared PercentileCalibrator that observed
\* nothing
EmptyHistogram(q) ==
    /\ calibrator[q].kind = "percentile"
    /\ histc_bins[q] # << >>
    /\ \A c \in Ch : Sum(histogram[q][c]) = 0

\* C16 as stated: update() on a calibrator whose histogram is empty raises
\* nothing, an error is logged for the quantizer, and the quantizer's
\* step_size is what it was before update().
CexC16 ==
    [][ op' = "exit" =>
            \A q \in Q :
                (EmptyHistogram(q) /\ << "update", q >> \in Range(trace')) =>
                    /\ raised' = pending
                    /\ << "log.error", q >> \in Range(trace')
                    /\ step_size'[q] = step_size[q] ]_vars

CexC18 ==
    [][ op' = "update" => determinism'.enabled = determinism.enabled ]_vars

\* C19 as stated: when an entry raised, no quantizer of the model is left
\* disabled and unprepared (disabled with no hook attached).
CexC19 ==
    (op = "enter" /\ raised # NoExc) =>
        \A q \in Q : ~(~is_enabled[q] /\ hooks[q] = 0)

\* C20: a quantizer instance reachable from the model root by several module
\* paths is calibrated once per scope: an entry on an unprepared model calls
\* prepare() exactly once on each instance and registers one hook, a forward
\* pass runs the hook of each instance at most once, and the exit calls
\* update() exactly once on each instance.
ThmC20 ==
    [][ /\ (op' = "enter" /\ \A q \in Q : calibrator[q].kind # "none" /\ histc_bins[q] = << >>) =>
              /\ raised' = NoExc
              /\ \A q \in Q : Count(trace', << "prepare", q >>) = 1 /\ hooks'[q] = 1
        /\ op' = "forward" =>
              \A q \in Q : Count(trace', << "hook", q >>) <= 1
        /\ op' = "exit" =>
              \A q \in Q : Count(trace', << "update", q >>) = 1 ]_vars

WitC20 ==
    /\ op = "forward"
    /\ Len(Modules) > NQ
    /\ \E i \in 2 .. Len(Modules) : Modules[i] = Modules[1]
    /\ hooks[Modules[1]] = 1
    /\ Count(trace, << "hook", Modules[1] >>) = 1
    /\ calibrator[Modules[1]].kind = "percentile"
    /\ \A c \in Ch : Sum(histogram[Modules[1]][c]) = 1

\* C21 as stated: an entry on a model that has a quantizer without calibrator
\* does not raise; it skips that quantizer and prepares the others.
CexC21 ==
    (op = "enter" /\ \E q \in Q : calibrator[q] = NoCalibrator) =>
        /\ raised = NoExc
        /\ \A q \in Q : calibrator[q] # NoCalibrator => hooks[q] = 1

CexC30 ==
    [][ (op' = "update" /\ raised' = NoExc) => determinism' = determinism ]_vars

\* an iteration of the polling loop that asked the queue and got a reply
\* carrying a status
Queried ==
    /\ op' = "poll"
    /\ bench.count % PollEvery = 0
    /\ bench'.last.status \in Statuses

\* the reply sets off the weight upload and the weight file is missing
UploadFails ==
    /\ bench.upload_weight
    /\ bench'.last.url # ""
    /\ ~bench.bin_exists

\* C23 as stated: poll_trt_benchmark returns normally only after a reply with
\* status BENCHMARK_DONE, raises RuntimeError on a reply with status
\* STATUS_NOT_FOUND or a failed status, and on every other reply keeps
\* polling.
CexC23 ==
    [][ Queried =>
          /\ bench'.pc = "result" => bench'.last.status = "BENCHMARK_DONE"
          /\ (bench'.last.status = "STATUS_NOT_FOUND" \/ Failed(bench'.last.status)) =>
                raised' = "RuntimeError"
          /\ ~Terminal(bench'.last.status) => (bench'.pc = "poll" /\ raised' = NoExc)
      ]_vars

\* C23: poll_trt_benchmark returns normally only after a reply with status
\* BENCHMARK_DONE and raises RuntimeError on STATUS_NOT_FOUND; a reply with
\* any other status that sets off the weight upload while the weight file is
\* missing ends the poll with FileNotFoundError; otherwise a failed status
\* raises RuntimeError, BENCHMARK_DONE returns, and every other status keeps
\* the loop polling.
ThmC23 ==
    [][ Queried =>
          /\ bench'.pc = "result" => bench'.last.status = "BENCHMARK_DONE"
          /\ bench'.last.status = "STATUS_NOT_FOUND" =>
                (raised' = "RuntimeError" /\ bench'.pc = "raised")
          /\ (bench'.last.status # "STATUS_NOT_FOUND" /\ UploadFails) =>
                (raised' = "FileNotFoundError" /\ bench'.pc = "raised")
          /\ (Failed(bench'.last.status) /\ ~UploadFails) =>
                (raised' = "RuntimeError" /\ bench'.pc = "raised")
          /\ (bench'.last.status = "BENCHMARK_DONE" /\ ~UploadFails) =>
                (raised' = NoExc /\ bench'.pc = "result")
          /\ (~Terminal(bench'.last.status) /\ ~UploadFails) =>
                (raised' = NoExc /\ bench'.pc = "poll")
      ]_vars

WitC23 ==
    /\ op = "poll"
    /\ raised = "RuntimeError"
    /\ Failed(bench.last.status)
    /\ bench.queries > 0
    /\ bench.benchmark_status = "BENCHMARKING"

\* C24: the polling loop keeps querying: at most PollEvery iterations pass
\* between two requests to the queue, because count, set to 0 when the status
\* changes to a new in-progress status and otherwise incremented modulo
\* CountModulus, comes back to a multiple of PollEvery; a loop that has
\* gone PollEvery iterations without a request sends one or ends, and once
\* the queue answers terminal statuses only the poll ends.
ThmC24 ==
    /\ [](bench.since <= PollEvery)
    /\ [](bench.pc = "poll" => bench.count < CountModulus)
    /\ (bench.pc = "poll" /\ bench.since = PollEvery) ~>
          (bench.pc # "poll" \/ bench.since < PollEvery)
    /\ (bench.pc = "poll" /\ bench.settled) ~> (bench.pc # "poll")

WitC24 ==
    /\ bench.pc = "poll"
    /\ bench.since = PollEvery
    /\ bench.count = PollEvery
    /\ bench.benchmark_status = "BENCHMARKING"
    /\ bench.queries = MaxQueries

\* the steps of orchestrate_trt_benchmark in the order of its statements
Ordered(paid) ==
    << "request_trt_benchmark", "poll_trt_benchmark", "get_trt_benchmark_result" >>
        \o (IF paid THEN << "download_trt_engine" >> ELSE << >>)
        \o << "clear_trt_engine" >>

IsPrefix(s, t) == Len(s) <= Len(t) /\ \A i \in DOMAIN s : s[i] = t[i]

\* C25: without a connected device orchestrate_trt_benchmark returns with no
\* request sent; with one, its steps run in the order request, poll, result,
\* download (paid tier only), clear, a step is reached only when every step
\* before it returned without raising, and an orchestration that returns has
\* run them all.
ThmC25 ==
    /\ ~bench.device => (bench.steps = << >> /\ bench.key_posts = 0 /\ trace = << >>)
    /\ IsPrefix(bench.steps, Ordered(bench.paid))
    /\ Len(bench.steps) <= bench.completed + 1
    /\ bench.pc \in {"poll", "raised", "exited"} => Len(bench.steps) = bench.completed + 1
    /\ bench.pc \notin {"poll", "raised", "exited"} => Len(bench.steps) = bench.completed
    /\ (bench.pc = "returned" /\ bench.device) => bench.steps = Ordered(bench.paid)
    /\ ~bench.paid => "download_trt_engine" \notin Range(bench.steps)

WitC25 ==
    /\ bench.pc = "returned"
    /\ bench.paid
    /\ bench.steps = Ordered(TRUE)
    /\ bench.completed = 5
    /\ bench.runs = MaxRuns

\* the requests that carry benchmark_key
KeyedEndpoints ==
    {"/devices/jobs/assign", "/devices/jobs/queue", "/devices/trt", "/devices/clear"}

\* C26: while input_signature is None, reading benchmark_key raises
\* RuntimeError with no request sent and nothing cached; once a key has been
\* obtained no further key is requested for the object, and every later
\* request of a benchmark, of the queue, of the engine download and of the
\* clearing carries that same key.
ThmC26 ==
    [][ /\ (op' = "orchestrate" /\ bench.device /\ ~bench.signature /\ bench.key = 0) =>
              (raised' = "RuntimeError" /\ trace' = << >> /\ bench'.key = 0)
        /\ bench.key # 0 => (bench'.key = bench.key /\ bench'.key_posts = bench.key_posts)
        /\ bench'.key_posts \in {bench.key_posts, bench.key_posts + 1}
        /\ \A i \in DOMAIN trace' :
              /\ trace'[i][1] \in KeyedEndpoints =>
                    (bench'.key # 0 /\ trace'[i][2] = bench'.key)
              /\ trace'[i][1] = "/projects/runs/keys" => bench.key = 0
      ]_vars

WitC26 ==
    /\ bench.runs = MaxRuns
    /\ bench.pc = "returned"
    /\ bench.completed = 5
    /\ bench.key # 0
    /\ bench.key_posts = bench.key
    /\ op = "clear"
    /\ trace = << << "/devices/clear", bench.key >> >>

\* C27 as stated: during one poll the weight file is uploaded at most once,
\* only for the paid tier, and only in answer to a reply that carries a
\* non-empty URL while its status is PRE_FETCHING.
CexC27 ==
    [][ (op' = "poll" /\ bench'.uploads > bench.uploads) =>
          /\ bench.uploads = 0
          /\ bench.paid
          /\ bench'.last.url # ""
          /\ bench'.last.status = "PRE_FETCHING"
      ]_vars

\* C28 as stated: poll_trt_benchmark puts back the SIGINT handler installed
\* before the call on every way out of it, the return on BENCHMARK_DONE and
\* the RuntimeError of a failed or unknown status alike.
CexC28 ==
    [][ (op' = "poll" /\ bench.pc = "poll" /\ bench'.pc # "poll"
            /\ raised' \in {NoExc, "RuntimeError"}) =>
          bench'.handler = bench.saved
      ]_vars

\* the experiment name a call of load or load_or_create was given: its first
\* request is the one of load
Asked == trace'[1][2]

\* every entry of baseline.experiments but the one of name is as it was
OthersKept(name) ==
    \A n \in 1 .. NNames : n # name => expt'.experiments[n] = expt.experiments[n]

\* C29: Experiment.load returns None and leaves baseline.experiments as it
\* was on HTTP 404, re-raises every other HTTP error, leaving it as it was
\* too, and on success builds a new experiment, stores it under its name and
\* returns it; load_or_create calls create only when load returned None, and
\* when it returns, baseline.experiments[name] is the experiment returned.
ThmC29 ==
    [][ /\ op' \in {"load", "load_or_create"} =>
              /\ trace'[1][1] = "/projects/runs/info"
              /\ OthersKept(Asked)
              /\ expt'.answer \in {"500", "no response"} =>
                    /\ raised' = "HTTPError"
                    /\ expt'.experiments = expt.experiments
                    /\ Len(trace') = 1
              /\ expt'.answer \in {"config", "no config"} =>
                    /\ raised' = NoExc
                    /\ Len(trace') = 1
                    /\ expt'.returned =
                          [name |-> Asked, has_config |-> expt'.answer = "config",
                           origin |-> "load", id |-> expt.made + 1]
                    /\ expt'.experiments[Asked] = expt'.returned
        /\ (op' = "load" /\ expt'.answer = "404") =>
                  /\ raised' = NoExc
                  /\ expt'.returned = NoExperiment
                  /\ expt'.experiments = expt.experiments
        /\ op' = "load_or_create" =>
              /\ (Len(trace') = 2) <=> (expt'.answer = "404")
              /\ Len(trace') = 2 => trace'[2] = << "/projects/runs", Asked >>
              /\ raised' = NoExc =>
                    /\ expt'.returned # NoExperiment
                    /\ expt'.returned.name = Asked
                    /\ expt'.returned.id = expt.made + 1
                    /\ expt'.returned.origin = IF expt'.answer = "404" THEN "create" ELSE "load"
                    /\ expt'.experiments[Asked] = expt'.returned
              /\ raised' # NoExc => expt'.experiments = expt.experiments
      ]_vars

WitC29 ==
    /\ op = "load_or_create"
    /\ raised = NoExc
    /\ expt.answer = "404"
    /\ expt.returned.origin = "create"
    /\ expt.returned.id = 2
    /\ \E n \in 1 .. NNames :
          /\ expt.experiments[n] = expt.returned
          /\ \E k \in 1 .. NNames : k # n /\ expt.experiments[k].origin = "load"

====
